---- MODULE Spec2Model ----
\* howmanylines: the scan-and-aggregate engine of src/unnamed/part_002 (the
\* newest revision of main.go): countLines, isLikelyTextFile, parseExtensions,
\* the WalkDir callback of scan, main's report and the two leaderboards.
\*
\* Strings are sequences of one-character strings (<<"g","o">> is "go"), so
\* that strings.ToLower, filepath.Ext, strings.HasPrefix and the byte-wise
\* string comparison are computed, not assumed.  File contents are sequences
\* of byte values 0..255.
EXTENDS Integers, Sequences, FiniteSets, TLC

VARIABLES
    pc,             \* position of the running program (per specification)
    file,           \* countLines / isLikelyTextFile: the file handed to the function
    ret,            \* countLines / isLikelyTextFile: the value returned
    entries,        \* leaderboards: the []fileStat argument (result.PerFile)
    top,            \* leaderboards: the requested N
    shown,          \* leaderboards: what was printed
    root,           \* scan: root argument
    skip,           \* scan: skip argument (set of directory names)
    count,          \* scan: count argument (set of extensions)
    includeHidden,  \* scan: includeHidden argument
    tree,           \* scan: the file system below root
    todo,           \* scan: entries WalkDir has still to hand to the callback
    s,              \* scan: var s stats
    err,            \* scan: the error WalkDir returned ("nil" when none)
    visited,        \* scan: paths the callback was invoked on
    sniffed,        \* scan: paths isLikelyTextFile was invoked on
    out             \* main: what was printed

vars == <<pc, file, ret, entries, top, shown, root, skip, count, includeHidden,
          tree, todo, s, err, visited, sniffed, out>>

-----------------------------------------------------------------------------
\* Characters and strings

Lower == <<"a","b","c","d","e","f","g","h","i","j","k","l","m",
           "n","o","p","q","r","s","t","u","v","w","x","y","z">>
Upper == <<"A","B","C","D","E","F","G","H","I","J","K","L","M",
           "N","O","P","Q","R","S","T","U","V","W","X","Y","Z">>

\* The byte value of a character (ASCII).
Ord(c) ==
    IF \E i \in 1..26 : Lower[i] = c THEN 96 + (CHOOSE i \in 1..26 : Lower[i] = c)
    ELSE IF \E i \in 1..26 : Upper[i] = c THEN 64 + (CHOOSE i \in 1..26 : Upper[i] = c)
    ELSE CASE c = " " -> 32
           [] c = "(" -> 40
           [] c = ")" -> 41
           [] c = "," -> 44
           [] c = "-" -> 45
           [] c = "." -> 46
           [] c = "/" -> 47
           [] c = "_" -> 95

\* strings.ToLower on one character.
ToLowerChar(c) ==
    IF \E i \in 1..26 : Upper[i] = c
    THEN Lower[CHOOSE i \in 1..26 : Upper[i] = c]
    ELSE c

\* strings.ToLower
ToLower(str) == [i \in 1..Len(str) |-> ToLowerChar(str[i])]

\* strings.HasPrefix
HasPrefix(str, prefix) ==
    /\ Len(str) >= Len(prefix)
    /\ SubSeq(str, 1, Len(prefix)) = prefix

\* strings.TrimSpace (the only white space used is the blank)
RECURSIVE TrimSpace(_)
TrimSpace(str) ==
    IF str = <<>> THEN str
    ELSE IF Head(str) = " " THEN TrimSpace(Tail(str))
    ELSE IF str[Len(str)] = " " THEN TrimSpace(SubSeq(str, 1, Len(str) - 1))
    ELSE str

\* strings.Split(str, ","): the fields between the commas, empty ones included.
RECURSIVE SplitComma(_)
SplitComma(str) ==
    IF \A i \in 1..Len(str) : str[i] # ","
    THEN <<str>>
    ELSE LET i == CHOOSE k \in 1..Len(str) :
                      /\ str[k] = ","
                      /\ \A j \in 1..(k - 1) : str[j] # ","
         IN  <<SubSeq(str, 1, i - 1)>> \o SplitComma(SubSeq(str, i + 1, Len(str)))

\* a < b for Go strings: byte-wise lexicographic order.
RECURSIVE StrLess(_, _)
StrLess(a, b) ==
    IF b = <<>> THEN FALSE
    ELSE IF a = <<>> THEN TRUE
    ELSE IF Head(a) # Head(b) THEN Ord(Head(a)) < Ord(Head(b))
    ELSE StrLess(Tail(a), Tail(b))

\* filepath.Ext: the suffix from the last dot of the last path element, or "".
Ext(path) ==
    LET dots == {i \in 1..Len(path) :
                    /\ path[i] = "."
                    /\ \A j \in i..Len(path) : path[j] # "/"}
    IN  IF dots = {} THEN <<>>
        ELSE SubSeq(path, CHOOSE i \in dots : \A j \in dots : j <= i, Len(path))

\* filepath.Join(dir, name) for a clean relative dir: "." joins to the bare name.
JoinPath(dir, name) ==
    IF dir = <<".">> THEN name ELSE dir \o <<"/">> \o name

\* filepath.Rel(root, path) for a path WalkDir(root) produced.
Rel(base, path) ==
    IF path = base THEN <<".">>
    ELSE IF base = <<".">> THEN path
    ELSE SubSeq(path, Len(base) + 2, Len(path))

-----------------------------------------------------------------------------
\* Tables and argument parsing of main

defaultSkipDirs ==
    { <<".","g","i","t">>,
      <<".","h","g">>,
      <<".","s","v","n">>,
      <<"n","o","d","e","_","m","o","d","u","l","e","s">>,
      <<"v","e","n","d","o","r">>,
      <<"d","i","s","t">>,
      <<"b","u","i","l","d">>,
      <<"t","a","r","g","e","t">> }

defaultSkipFiles ==
    { <<"p","a","c","k","a","g","e","-","l","o","c","k",".","j","s","o","n">>,
      <<"y","a","r","n",".","l","o","c","k">>,
      <<"p","n","p","m","-","l","o","c","k",".","y","a","m","l">>,
      <<"b","u","n",".","l","o","c","k","b">>,
      <<"c","a","r","g","o",".","l","o","c","k">>,
      <<"c","a","r","g","o",".","t","o","m","l">>,
      <<"g","o",".","s","u","m">>,
      <<"p","o","e","t","r","y",".","l","o","c","k">>,
      <<"p","i","p","f","i","l","e",".","l","o","c","k">>,
      <<"c","o","m","p","o","s","e","r",".","l","o","c","k">>,
      <<"g","e","m","f","i","l","e",".","l","o","c","k">> }

\* main, the skip map: the defaults plus the trimmed non-empty fields of -skip.
BuildSkip(skipDirs) ==
    defaultSkipDirs \cup
        (IF skipDirs = <<>> THEN {}
         ELSE LET parts == SplitComma(skipDirs)
              IN  {TrimSpace(parts[i]) : i \in 1..Len(parts)} \ {<<>>})

\* parseExtensions: lower-cased, trimmed, non-empty fields, each with a leading dot.
parseExtensions(raw) ==
    IF TrimSpace(raw) = <<>> THEN {}
    ELSE LET parts == SplitComma(raw)
             norm(part) == TrimSpace(ToLower(part))
         IN  { IF HasPrefix(norm(parts[i]), <<".">>)
               THEN norm(parts[i])
               ELSE <<".">> \o norm(parts[i])
               : i \in {k \in 1..Len(parts) : norm(parts[k]) # <<>>} }

-----------------------------------------------------------------------------
\* Files as the operating system presents them.  A file is a record
\*   content   its bytes
\*   openErr   the error of os.Open ("nil" when it succeeds)
\*   readErr   the error a Read reports once readAt bytes were delivered
\*             ("nil": the file reads to its end)
\*   readAt    the number of bytes delivered before readErr
\*   cuts      the offsets at which successive Read calls of countLines split
\*             the delivered bytes (a Read may return fewer bytes than asked)
\*   lastWithData  whether the final status (io.EOF or readErr) comes together
\*             with the last bytes (n > 0 with err # nil) or in a Read of its own

\* The bytes the file delivers before its reads end.
Delivered(f) ==
    IF f.readErr = "nil" THEN f.content ELSE SubSeq(f.content, 1, f.readAt)

\* The results (data, err) of the successive f.Read(buf) calls in countLines.
Reads(f) ==
    LET avail  == Delivered(f)
        final  == IF f.readErr = "nil" THEN "EOF" ELSE f.readErr
        bounds == {0} \cup {c \in f.cuts : c < Len(avail)} \cup {Len(avail)}
        starts == {b \in bounds : b < Len(avail)}
        n      == Cardinality(starts)
        nth(k) == CHOOSE b \in starts : Cardinality({x \in starts : x < b}) = k - 1
        next(b) == CHOOSE e \in bounds : e > b /\ \A x \in bounds : x > b => e <= x
        chunks == [k \in 1..n |->
                    [data |-> SubSeq(avail, nth(k) + 1, next(nth(k))),
                     err  |-> IF k = n /\ f.lastWithData THEN final ELSE "nil"]]
    IN  IF n > 0 /\ f.lastWithData THEN chunks
        ELSE chunks \o <<[data |-> <<>>, err |-> final]>>

\* countLines, the loop over the bytes of one chunk (lines 344-351).
RECURSIVE ChunkLoop(_, _, _, _)
ChunkLoop(chunk, i, lines, lastByteNL) ==
    IF i > Len(chunk) THEN [lines |-> lines, lastByteNL |-> lastByteNL]
    ELSE IF chunk[i] = 10
         THEN ChunkLoop(chunk, i + 1, lines + 1, TRUE)
         ELSE ChunkLoop(chunk, i + 1, lines, FALSE)

\* A countLines that adds the partial line to every non-empty file.
CountResultAlwaysPartial(lines, size, lastByteNL) ==
    [lines |-> IF size > 0 THEN lines + 1 ELSE lines,
     size  |-> size,
     err   |-> "nil"]

\* countLines, what follows the read loop (lines 362-366).
CountResult(lines, size, lastByteNL) ==
    [lines |-> IF size > 0 /\ ~lastByteNL THEN lines + 1 ELSE lines,
     size  |-> size,
     err   |-> "nil"]

\* countLines, the read loop (lines 339-360) from the i-th Read on.
RECURSIVE ReadLoop(_, _, _, _, _)
ReadLoop(reads, i, lines, size, lastByteNL) ==
    LET r     == reads[i]
        after == ChunkLoop(r.data, 1, lines, lastByteNL)
        size2 == size + Len(r.data)
    IN  IF r.err = "EOF" THEN CountResult(after.lines, size2, after.lastByteNL)
        ELSE IF r.err # "nil" THEN [lines |-> 0, size |-> 0, err |-> r.err]
        ELSE ReadLoop(reads, i + 1, after.lines, size2, after.lastByteNL)

\* countLines(path): (lines, size, err).
countLines(f) ==
    IF f.openErr # "nil"
    THEN [lines |-> 0, size |-> 0, err |-> f.openErr]
    ELSE ReadLoop(Reads(f), 1, 0, 0, TRUE)

sniffSize == 8192

\* isLikelyTextFile, the byte test of the loop (lines 243-252): b counts as non-text.
NonText(b) ==
    /\ b \notin {10, 13, 9}
    /\ ~(b >= 32 /\ b <= 126)
    /\ ~(b >= 128)

\* An isLikelyTextFile whose threshold is exclusive (< 0.30).
TextDataStrict(data) ==
    IF Len(data) = 0 THEN TRUE
    ELSE IF \E i \in 1..Len(data) : data[i] = 0 THEN FALSE
    ELSE LET nonText == Cardinality({i \in 1..Len(data) : NonText(data[i])})
         IN  10 * nonText < 3 * Len(data)

\* isLikelyTextFile from "data := buf[:n]" on (lines 232-255).  The float64
\* quotient nonText/len(data) <= 0.30 is decided as 10*nonText <= 3*len(data):
\* for len(data) <= 8192 a quotient above 3/10 exceeds it by at least
\* 1/81920, far more than a float64 rounding error, and a quotient of exactly
\* 3/10 rounds to the same float64 as the literal 0.30.
TextData(data) ==
    IF Len(data) = 0 THEN TRUE
    ELSE IF \E i \in 1..Len(data) : data[i] = 0 THEN FALSE
    ELSE LET nonText == Cardinality({i \in 1..Len(data) : NonText(data[i])})
         IN  10 * nonText <= 3 * Len(data)

\* isLikelyTextFile(path).  The single f.Read(buf) of a regular file returns
\* the first min(sniffSize, delivered) bytes; it fails only when nothing can
\* be delivered before the read error.
isLikelyTextFile(f) ==
    IF f.openErr # "nil" THEN FALSE
    ELSE IF f.readErr # "nil" /\ f.readAt = 0 THEN FALSE
    ELSE LET avail == Delivered(f)
             n     == IF Len(avail) < sniffSize THEN Len(avail) ELSE sniffSize
         IN  TextData(SubSeq(avail, 1, n))

-----------------------------------------------------------------------------
\* The leaderboards.  A fileStat is [Path, Lines, Bytes], an extStat is
\* [Ext, Files, Lines]; a printed block is its header (the requested N, the
\* number of rows, whether "(showing k)" is printed) and its rows.

\* A less function that leaves files of equal line count in the order found.
FileLessNoTieBreak(a, b) == a.Lines > b.Lines

\* printFileLeaderboard, the less function of sort.Slice (lines 193-198).
FileLess(a, b) ==
    IF a.Lines # b.Lines THEN a.Lines > b.Lines
    ELSE StrLess(a.Path, b.Path)

\* sort.Slice(sorted, FileLess).  The order is total on (Lines, Path), so every
\* correct sort returns the same rows; it is computed here by insertion.
RECURSIVE InsertFile(_, _)
InsertFile(x, sorted) ==
    IF sorted = <<>> THEN <<x>>
    ELSE IF FileLess(x, Head(sorted)) THEN <<x>> \o sorted
    ELSE <<Head(sorted)>> \o InsertFile(x, Tail(sorted))

RECURSIVE SortFiles(_)
SortFiles(list) ==
    IF list = <<>> THEN <<>>
    ELSE InsertFile(Head(list), SortFiles(Tail(list)))

\* The header and rows both leaderboards print (lines 199-216, 286-303).
Block(kind, sorted, requested) ==
    LET n == IF requested > Len(sorted) THEN Len(sorted) ELSE requested
    IN  [kind      |-> kind,
         requested |-> requested,
         showing   |-> n,
         flagged   |-> n < requested,
         rows      |-> SubSeq(sorted, 1, n)]

\* printFileLeaderboard(entries, top): the block printed, and the caller's
\* slice after the call (the sort works on a copy, line 192).
printFileLeaderboard(list, n) ==
    LET sorted == SortFiles(list)
    IN  [entries |-> list,
         block   |-> Block("Files",
                           [i \in 1..Len(sorted) |->
                               [Lines |-> sorted[i].Lines, Path |-> sorted[i].Path]],
                           n)]

NoExtension == <<"(","n","o"," ","e","x","t","e","n","s","i","o","n",")">>

\* printExtensionLeaderboard, the key of a record in byExt (lines 261-264).
ExtKey(path) ==
    LET ext == ToLower(Ext(path))
    IN  IF ext = <<>> THEN NoExtension ELSE ext

\* printExtensionLeaderboard, the grouping loop (lines 259-270): the map byExt
\* after the first k entries.
RECURSIVE ByExt(_, _)
ByExt(list, k) ==
    IF k = 0 THEN <<>>
    ELSE LET byExt == ByExt(list, k - 1)
             ext   == ExtKey(list[k].Path)
             curr  == IF ext \in DOMAIN byExt THEN byExt[ext]
                      ELSE [Ext |-> <<>>, Files |-> 0, Lines |-> 0]
             next  == [Ext |-> ext, Files |-> curr.Files + 1,
                       Lines |-> curr.Lines + list[k].Lines]
         IN  [e \in DOMAIN byExt \cup {ext} |-> IF e = ext THEN next ELSE byExt[e]]

\* A less function that ranks by file count before summed lines.
ExtLessFilesFirst(a, b) ==
    IF a.Files # b.Files THEN a.Files > b.Files
    ELSE IF a.Lines # b.Lines THEN a.Lines > b.Lines
    ELSE StrLess(a.Ext, b.Ext)

\* A less function that ranks extensions by summed lines alone.
ExtLessLinesOnly(a, b) == a.Lines > b.Lines

\* printExtensionLeaderboard, the less function of sort.Slice (lines 277-285).
ExtLess(a, b) ==
    IF a.Lines # b.Lines THEN a.Lines > b.Lines
    ELSE IF a.Files # b.Files THEN a.Files > b.Files
    ELSE StrLess(a.Ext, b.Ext)

RECURSIVE InsertExt(_, _)
InsertExt(x, sorted) ==
    IF sorted = <<>> THEN <<x>>
    ELSE IF ExtLess(x, Head(sorted)) THEN <<x>> \o sorted
    ELSE <<Head(sorted)>> \o InsertExt(x, Tail(sorted))

RECURSIVE SortExts(_)
SortExts(list) ==
    IF list = <<>> THEN <<>>
    ELSE InsertExt(Head(list), SortExts(Tail(list)))

\* The orders in which "for _, e := range byExt" may yield the keys of a map.
MapOrders(keys) ==
    {o \in [1..Cardinality(keys) -> keys] :
        \A i, j \in 1..Cardinality(keys) : i # j => o[i] # o[j]}

\* printExtensionLeaderboard(entries, top) when the map yields its keys in
\* the order iter.
printExtensionLeaderboard(list, n, iter) ==
    LET byExt  == ByExt(list, Len(list))
        sorted == SortExts([i \in 1..Len(iter) |-> byExt[iter[i]]])
    IN  [entries |-> list,
         block   |-> Block("Extensions",
                           [i \in 1..Len(sorted) |->
                               [Lines |-> sorted[i].Lines, Ext |-> sorted[i].Ext]],
                           n)]

-----------------------------------------------------------------------------
\* scan.  The file system below root is a set of entries
\*   comps    the names from root down to the entry (<<>> for root itself)
\*   kind     "dir", "file" (a regular file) or "symlink"
\*   content, openErr, readErr, readAt   as for files above
\*   listErr  the error of reading the directory ("nil" when it can be read)

\* d.Name(): the last name of the entry; for root the base name of root.
NameOf(e) == IF e.comps = <<>> THEN root ELSE e.comps[Len(e.comps)]

\* The path WalkDir hands to the callback: the names joined onto root.
RECURSIVE JoinAll(_, _)
JoinAll(dir, comps) ==
    IF comps = <<>> THEN dir
    ELSE JoinAll(JoinPath(dir, Head(comps)), Tail(comps))

PathOf(e) == JoinAll(root, e.comps)

\* The file of an entry as countLines and isLikelyTextFile open it: a regular
\* file on disk, whose reads are not split.
FileOf(e) ==
    [content |-> e.content, openErr |-> e.openErr, readErr |-> e.readErr,
     readAt |-> e.readAt, cuts |-> {}, lastWithData |-> FALSE]

\* errors.Is(err, fs.ErrPermission)
IsPermission(e) == e \in {"EACCES", "EPERM"}

\* A callback that descends into directories named in the skip set.
SkipsDirNever(name, path) ==
    ~includeHidden /\ HasPrefix(name, <<".">>) /\ path # root

\* The callback on a directory (lines 131-139): whether it returns SkipDir.
SkipsDir(name, path) ==
    \/ name \in skip /\ path # root
    \/ ~includeHidden /\ HasPrefix(name, <<".">>) /\ path # root

\* A callback that applies the hidden-file rule only without an extension set.
HiddenFileUnlessCount(name) ==
    ~includeHidden /\ HasPrefix(name, <<".">>) /\ count = {}

\* The callback on a regular file (lines 144-146): the hidden-file rule.
HiddenFile(name) == ~includeHidden /\ HasPrefix(name, <<".">>)

\* A callback that compares the extension with the set as it is spelled.
InCountSetExact(name) == Ext(name) \in count

\* The callback with an extension set (lines 149-152): the extension is in it.
InCountSet(name) == ToLower(Ext(name)) \in count

\* A callback that looks the name up in defaultSkipFiles as it is spelled.
DefaultSkipByNameExact(name) ==
    \/ name \in defaultSkipFiles
    \/ ToLower(Ext(name)) = <<>>
    \/ ToLower(Ext(name)) = <<".","e","x","e">>

\* The callback without an extension set (lines 154-159): excluded by name.
DefaultSkipByName(name) ==
    \/ ToLower(name) \in defaultSkipFiles
    \/ ToLower(Ext(name)) = <<>>
    \/ ToLower(Ext(name)) = <<".","e","x","e">>

\* A callback that returns every error of countLines.
CountErrorAlwaysFatal(e) == e

\* A callback that returns no error of countLines.
CountErrorNeverFatal(e) == "nil"

\* The callback on an error of countLines (lines 166-171): what it returns.
CountError(e) == IF IsPermission(e) THEN "nil" ELSE e

\* A callback that adds to the counters and appends no record.
CountedNoRecord(e, st) ==
    LET r == countLines(FileOf(e))
    IN  IF r.err # "nil"
        THEN [ret |-> CountError(r.err), s |-> st]
        ELSE [ret |-> "nil",
              s   |-> [st EXCEPT !.Files = @ + 1,
                                 !.Lines = @ + r.lines,
                                 !.Bytes = @ + r.size]]

\* The callback from countLines on (lines 165-185): the file is counted.
Counted(e, st) ==
    LET r == countLines(FileOf(e))
    IN  IF r.err # "nil"
        THEN [ret |-> CountError(r.err), s |-> st]
        ELSE [ret |-> "nil",
              s   |-> [Files   |-> st.Files + 1,
                       Lines   |-> st.Lines + r.lines,
                       Bytes   |-> st.Bytes + r.size,
                       PerFile |-> Append(st.PerFile,
                                      [Path  |-> Rel(root, PathOf(e)),
                                       Lines |-> r.lines,
                                       Bytes |-> r.size])]]

\* A callback that swallows a permission-denied walkErr as it swallows a
\* permission-denied error of countLines.
WalkErrorPermissionSwallowed(werr) == IF IsPermission(werr) THEN "nil" ELSE werr

\* The callback on a non-nil walkErr (lines 126-128): what it returns.
WalkError(werr) == werr

\* The callback of scan (lines 125-186) on entry e with walkErr = werr and
\* the stats st: what it returns ("nil", "SkipDir" or an error), the stats,
\* and whether it called isLikelyTextFile.
fn(e, werr, st) ==
    LET skipped == [ret |-> "nil", s |-> st, sniff |-> FALSE]
        counted == Counted(e, st)
    IN  IF werr # "nil" THEN [skipped EXCEPT !.ret = WalkError(werr)]
        ELSE IF e.kind = "dir"
        THEN IF SkipsDir(NameOf(e), PathOf(e))
             THEN [skipped EXCEPT !.ret = "SkipDir"]
             ELSE skipped
        ELSE IF e.kind # "file" THEN skipped
        ELSE IF HiddenFile(NameOf(e)) THEN skipped
        ELSE IF count # {}
        THEN IF ~InCountSet(NameOf(e)) THEN skipped
             ELSE [ret |-> counted.ret, s |-> counted.s, sniff |-> FALSE]
        ELSE IF DefaultSkipByName(NameOf(e)) THEN skipped
        ELSE IF ~isLikelyTextFile(FileOf(e)) THEN [skipped EXCEPT !.sniff = TRUE]
        ELSE [ret |-> counted.ret, s |-> counted.s, sniff |-> TRUE]

\* The entries of directory dir in tree t.
Kids(t, dir) ==
    {k \in t : Len(k.comps) = Len(dir.comps) + 1
               /\ SubSeq(k.comps, 1, Len(dir.comps)) = dir.comps}

\* os.ReadDir: the entries of dir sorted by file name.
ReadDir(t, dir) ==
    LET kids == Kids(t, dir)
    IN  [i \in 1..Cardinality(kids) |->
            CHOOSE k \in kids :
                Cardinality({o \in kids : StrLess(NameOf(o), NameOf(k))}) = i - 1]

\* filepath.WalkDir at its start: root is handed to the callback, or, when
\* os.Lstat(root) fails, the callback gets the error and WalkDir returns what
\* the callback returns.
WalkStart(t) ==
    IF \E e \in t : e.comps = <<>>
    THEN [todo |-> <<CHOOSE e \in t : e.comps = <<>> >>,
          s |-> [Files |-> 0, Lines |-> 0, Bytes |-> 0, PerFile |-> <<>>],
          err |-> "nil", visited |-> <<>>, sniffed |-> {}]
    ELSE [todo |-> <<>>,
          s |-> [Files |-> 0, Lines |-> 0, Bytes |-> 0, PerFile |-> <<>>],
          err |-> fn([comps |-> <<>>, kind |-> "none"], "ENOENT",
                     [Files |-> 0, Lines |-> 0, Bytes |-> 0, PerFile |-> <<>>]).ret,
          visited |-> <<root>>, sniffed |-> {}]

\* One step of filepath.WalkDir over tree t: the callback on the next entry,
\* and what WalkDir does with its answer.  An error ends the walk; SkipDir
\* drops the directory; otherwise a directory is read and its entries come
\* next.  A failure of the read is handed to the callback with the same
\* entry: an error it returns ends the walk, SkipDir drops the directory, and
\* on nil the walk goes on with the entries that were read.
WalkStep(t, w) ==
    LET e    == Head(w.todo)
        r    == fn(e, "nil", w.s)
        seen == [w EXCEPT !.visited = Append(w.visited, PathOf(e)),
                          !.sniffed = IF r.sniff THEN w.sniffed \cup {PathOf(e)}
                                      ELSE w.sniffed]
    IN  IF r.ret \notin {"nil", "SkipDir"}
        THEN [seen EXCEPT !.todo = <<>>, !.err = r.ret]
        ELSE IF e.kind # "dir" \/ r.ret = "SkipDir"
        THEN [seen EXCEPT !.todo = Tail(w.todo), !.s = r.s]
        ELSE IF e.listErr # "nil" /\ fn(e, e.listErr, w.s).ret = "SkipDir"
        THEN [seen EXCEPT !.todo = Tail(w.todo)]
        ELSE IF e.listErr # "nil" /\ fn(e, e.listErr, w.s).ret # "nil"
        THEN [seen EXCEPT !.todo = <<>>, !.err = fn(e, e.listErr, w.s).ret]
        ELSE [seen EXCEPT !.todo = ReadDir(t, e) \o Tail(w.todo)]

\* scan(root, skip, count, includeHidden) over tree t, run to its return.
RECURSIVE WalkAll(_, _)
WalkAll(t, w) == IF w.todo = <<>> THEN w ELSE WalkAll(t, WalkStep(t, w))

RunScan(t) == WalkAll(t, WalkStart(t))

\* main after scan (lines 89-101): the error on stderr and exit status 1, or
\* the totals and, with -rank, the two leaderboards.
Report(st, e, rank, n, iter) ==
    IF e # "nil"
    THEN [exit |-> 1, stderr |-> e, stdout |-> <<>>]
    ELSE [exit |-> 0, stderr |-> "nil",
          stdout |-> <<[Files |-> st.Files, Lines |-> st.Lines, Bytes |-> st.Bytes]>>
                     \o (IF rank
                         THEN <<printFileLeaderboard(st.PerFile, n).block,
                                printExtensionLeaderboard(st.PerFile, n, iter).block>>
                         ELSE <<>>)]

-----------------------------------------------------------------------------
\* Values of the variables a specification does not use

NoFile == [content |-> <<>>, openErr |-> "nil", readErr |-> "nil", readAt |-> 0,
           cuts |-> {}, lastWithData |-> FALSE]

FileIdle == file = NoFile /\ ret = "-"

RankIdle == entries = <<>> /\ top = 0 /\ shown = <<>>

ScanIdle ==
    /\ root = <<>> /\ skip = {} /\ count = {} /\ includeHidden = FALSE
    /\ tree = {} /\ todo = <<>> /\ s = "-" /\ err = "nil"
    /\ visited = <<>> /\ sniffed = {} /\ out = "-"

scanVars == <<root, skip, count, includeHidden, tree, todo, s, err, visited,
              sniffed, out>>

rankVars == <<entries, top, shown>>

-----------------------------------------------------------------------------
\* countLines on every short content, however its reads are split

MaxLen == 3

\* LF, CR and an ordinary byte.
CountBytes == {10, 13, 97}

SeqsUpTo(S, n) == UNION {[1..k -> S] : k \in 0..n}

CountFiles ==
    { [content |-> c, openErr |-> o, readErr |-> r.err, readAt |-> r.at,
       cuts |-> k, lastWithData |-> l] :
        c \in SeqsUpTo(CountBytes, MaxLen),
        o \in {"nil", "EPERM", "ENOENT"},
        r \in {[err |-> "nil", at |-> 0], [err |-> "EIO", at |-> 0],
               [err |-> "EIO", at |-> 1], [err |-> "EPERM", at |-> 2]},
        k \in SUBSET (1..(MaxLen - 1)),
        l \in BOOLEAN }

CountInit ==
    /\ pc = "call"
    /\ file \in {f \in CountFiles :
                    /\ f.readAt <= Len(f.content)
                    /\ f.cuts \subseteq 1..(Len(Delivered(f)) - 1)
                    /\ (f.openErr # "nil" =>
                            f.readErr = "nil" /\ f.cuts = {} /\ ~f.lastWithData)}
    /\ ret = "-"
    /\ RankIdle
    /\ ScanIdle

CallCountLines ==
    /\ pc = "call"
    /\ ret' = countLines(file)
    /\ pc' = "done"
    /\ UNCHANGED <<file, rankVars, scanVars>>

CountNext == CallCountLines

SpecCount == CountInit /\ [][CountNext]_vars

-----------------------------------------------------------------------------
\* isLikelyTextFile on contents given as runs of equal bytes

MaxRuns == 2

\* Short runs: an ordinary and a control byte in runs of 1, 3 and 7, and one
\* byte of every class isLikelyTextFile tells apart, at the edges of the classes.
SmallRuns ==
    {[b |-> b, n |-> n] : b \in {1, 97}, n \in {1, 3, 7}}
    \cup {[b |-> b, n |-> 1] : b \in {0, 9, 10, 13, 31, 32, 126, 127, 128, 255}}

\* Long runs: lengths around the sample size and around 30% of it.
BigRuns == {[b |-> b, n |-> n] : b \in {1, 97}, n \in {2457, 2458, 5735, 8192}}

\* Contents: every sequence of short runs, and one or two long runs with at
\* most one more byte after them.
SniffContents ==
    SeqsUpTo(SmallRuns, MaxRuns)
    \cup { big \o tail : big \in SeqsUpTo(BigRuns, 2) \ {<<>>},
                         tail \in {<<>>} \cup {<<[b |-> b, n |-> 1]>> : b \in {0, 1, 97}} }

\* The bytes of a sequence of runs.
RECURSIVE Expand(_)
Expand(runs) ==
    IF runs = <<>> THEN <<>>
    ELSE [i \in 1..Head(runs).n |-> Head(runs).b] \o Expand(Tail(runs))

SniffFiles ==
    { [runs |-> r, openErr |-> m.o, readErr |-> m.r, readAt |-> 0,
       cuts |-> {}, lastWithData |-> FALSE] :
        r \in SniffContents,
        m \in {[o |-> "nil", r |-> "nil"], [o |-> "ENOENT", r |-> "nil"],
               [o |-> "EPERM", r |-> "nil"], [o |-> "nil", r |-> "EIO"]} }

\* The file whose content the runs describe.
Materialize(f) ==
    [content |-> Expand(f.runs), openErr |-> f.openErr, readErr |-> f.readErr,
     readAt |-> f.readAt, cuts |-> f.cuts, lastWithData |-> f.lastWithData]

SniffInit ==
    /\ pc = "call"
    /\ file \in SniffFiles
    /\ ret = "-"
    /\ RankIdle
    /\ ScanIdle

CallIsLikelyTextFile ==
    /\ pc = "call"
    /\ ret' = isLikelyTextFile(Materialize(file))
    /\ pc' = "done"
    /\ UNCHANGED <<file, rankVars, scanVars>>

SniffNext == CallIsLikelyTextFile

SpecSniff == SniffInit /\ [][SniffNext]_vars

-----------------------------------------------------------------------------
\* scan and main's report on small trees

Text == <<97, 10, 97>>

\* The regular files and links a directory may hold: name, kind, content and
\* how opening and reading go.
Specimen(name, kind, content, openErr, readErr, readAt) ==
    [name |-> name, kind |-> kind, content |-> content, openErr |-> openErr,
     readErr |-> readErr, readAt |-> readAt]

Plain      == Specimen(<<"a",".","g","o">>, "file", Text, "nil", "nil", 0)
Denied     == Specimen(<<"a",".","g","o">>, "file", Text, "EACCES", "nil", 0)
DeniedLate == Specimen(<<"a",".","g","o">>, "file", Text, "nil", "EACCES", 2)
Broken     == Specimen(<<"a",".","g","o">>, "file", Text, "nil", "EIO", 2)
Vanished   == Specimen(<<"a",".","g","o">>, "file", Text, "ENOENT", "nil", 0)
UpperExt   == Specimen(<<"m",".","G","o">>, "file", <<10, 13, 10>>, "nil", "nil", 0)
LockFile   == Specimen(<<"G","o",".","s","u","m">>, "file", <<97, 10>>, "nil", "nil", 0)
Exe        == Specimen(<<"t",".","E","X","E">>, "file", <<0, 1>>, "nil", "nil", 0)
NoExt      == Specimen(<<"R","E","A","D","M","E">>, "file", Text, "nil", "nil", 0)
Hidden     == Specimen(<<".","h",".","g","o">>, "file", Text, "nil", "nil", 0)
Binary     == Specimen(<<"n",".","m","d">>, "file", <<0, 97>>, "nil", "nil", 0)
Link       == Specimen(<<"l",".","g","o">>, "symlink", <<>>, "nil", "nil", 0)
Last       == Specimen(<<"z",".","m","d">>, "file", <<97>>, "nil", "nil", 0)

RootFiles == {Plain, Denied, DeniedLate, Broken, Vanished, UpperExt, LockFile,
              Exe, NoExt, Hidden, Binary, Link}

SubFiles == {Plain, DeniedLate, Broken, LockFile, Binary}

DirNames == { <<"b","u","i","l","d">>, <<"B","u","i","l","d">>,
              <<".","d">>, <<"s","r","c">> }

InnerNames == { <<".","g","i","t">>, <<"l","i","b">> }

\* The entry of a specimen below the directory at comps.
FileEntry(comps, f) ==
    [comps |-> Append(comps, f.name), kind |-> f.kind, content |-> f.content,
     openErr |-> f.openErr, readErr |-> f.readErr, readAt |-> f.readAt,
     listErr |-> "nil"]

DirEntry(comps, listErr) ==
    [comps |-> comps, kind |-> "dir", content |-> <<>>, openErr |-> "nil",
     readErr |-> "nil", readAt |-> 0, listErr |-> listErr]

\* The trees: root holds at most one file of RootFiles, always the file
\* z.md, and at most one directory; that directory cannot be read (with
\* nothing or with a.go read before the failure), or holds at most one file
\* and at most one inner directory with the file a.go.  Or root is missing,
\* or root itself cannot be read.
DirWith(d) ==
    { {DirEntry(<<d>>, "nil")} \cup fs \cup inner :
        fs \in {{}} \cup { {FileEntry(<<d>>, f)} : f \in SubFiles },
        inner \in {{}} \cup { {DirEntry(<<d, i>>, "nil"), FileEntry(<<d, i>>, Plain)} :
                                i \in InnerNames } }

SubTrees ==
    {{}}
    \cup { {DirEntry(<<d>>, le)} : d \in DirNames, le \in {"EACCES", "EIO"} }
    \cup { {DirEntry(<<d>>, le), FileEntry(<<d>>, Plain)} :
             d \in DirNames, le \in {"EACCES", "EIO"} }
    \cup UNION { DirWith(d) : d \in DirNames }

Trees ==
    {{}}
    \cup { {DirEntry(<<>>, le), FileEntry(<<>>, Last)} : le \in {"EACCES", "EIO"} }
    \cup { {DirEntry(<<>>, "nil"), FileEntry(<<>>, Last)} \cup fs \cup sub :
             fs \in {{}} \cup { {FileEntry(<<>>, f)} : f \in RootFiles },
             sub \in SubTrees }

Roots == { <<".">>, <<"b","u","i","l","d">> }

\* -skip: absent, or " src ,." (src and the root's own name ".").
SkipArgs == { <<>>, <<" ","s","r","c"," ",",",".">> }

\* -count: absent, "go", or "SUM, .exe,,md".
CountArgs == { <<>>, <<"g","o">>,
               <<"S","U","M",","," ",".","e","x","e",",",",","m","d">> }

ZeroStats == [Files |-> 0, Lines |-> 0, Bytes |-> 0, PerFile |-> <<>>]

Init ==
    /\ pc = "start"
    /\ root \in Roots
    /\ skip \in {BuildSkip(a) : a \in SkipArgs}
    /\ count \in {parseExtensions(a) : a \in CountArgs}
    /\ includeHidden \in BOOLEAN
    /\ tree \in Trees
    /\ todo = <<>>
    /\ s = ZeroStats
    /\ err = "nil"
    /\ visited = <<>>
    /\ sniffed = {}
    /\ out = "-"
    /\ FileIdle
    /\ RankIdle

Walk == [todo |-> todo, s |-> s, err |-> err, visited |-> visited, sniffed |-> sniffed]

\* The variables after the walk reached state w.
WalkTo(w) ==
    /\ todo' = w.todo
    /\ s' = w.s
    /\ err' = w.err
    /\ visited' = w.visited
    /\ sniffed' = w.sniffed
    /\ pc' = IF w.todo = <<>> THEN "scanned" ELSE "walk"
    /\ UNCHANGED <<root, skip, count, includeHidden, tree, out, file, ret, rankVars>>

\* filepath.WalkDir(root, fn) begins: os.Lstat(root) succeeds or fails.
WalkDirStart ==
    /\ pc = "start"
    /\ \E e \in tree : e.comps = <<>>
    /\ WalkTo(WalkStart(tree))

WalkDirLstatError ==
    /\ pc = "start"
    /\ ~\E e \in tree : e.comps = <<>>
    /\ WalkTo(WalkStart(tree))

\* One step of the walk: the callback on the next entry (a directory it
\* prunes or lets WalkDir read, a file it skips or counts, an error it
\* returns), and what WalkDir does with the answer.
WalkDirStep ==
    /\ pc = "walk"
    /\ WalkTo(WalkStep(tree, Walk))

\* main: scan returned an error.
ReportError ==
    /\ pc = "scanned"
    /\ err # "nil"
    /\ out' = Report(s, err, FALSE, 3, <<>>)
    /\ pc' = "exit"
    /\ UNCHANGED <<root, skip, count, includeHidden, tree, todo, s, err, visited,
                   sniffed, file, ret, rankVars>>

\* main: scan returned its stats; -rank and its N are whatever was given
\* (N is 3 when -rank has no argument).
ReportTotals ==
    /\ pc = "scanned"
    /\ err = "nil"
    /\ \E rank \in BOOLEAN, n \in {1, 3} :
        \E iter \in MapOrders(DOMAIN ByExt(s.PerFile, Len(s.PerFile))) :
            out' = Report(s, err, rank, n, iter)
    /\ pc' = "exit"
    /\ UNCHANGED <<root, skip, count, includeHidden, tree, todo, s, err, visited,
                   sniffed, file, ret, rankVars>>

Next ==
    \/ WalkDirStart
    \/ WalkDirLstatError
    \/ WalkDirStep
    \/ ReportError
    \/ ReportTotals

Spec == Init /\ [][Next]_vars

-----------------------------------------------------------------------------
\* Properties of scan (Spec)

\* The entries the callback was invoked on.
VisitedEntries == {e \in tree : \E i \in 1..Len(visited) : visited[i] = PathOf(e)}

\* The path of an entry relative to root: its names joined by "/".
RECURSIVE SlashJoin(_)
SlashJoin(comps) ==
    IF Len(comps) = 1 THEN comps[1]
    ELSE comps[1] \o <<"/">> \o SlashJoin(Tail(comps))

\* The entry has a per-file record.
Recorded(e) ==
    \E i \in 1..Len(s.PerFile) : s.PerFile[i].Path = SlashJoin(e.comps)

\* e lies below directory d, at any depth.
IsUnder(e, d) ==
    /\ Len(e.comps) > Len(d.comps)
    /\ SubSeq(e.comps, 1, Len(d.comps)) = d.comps

StartsWithDot(name) == Len(name) > 0 /\ name[1] = "."

\* A regular file the hidden-file rule does not exclude and that opens and
\* reads without error.
PlainReadable(e) ==
    /\ e.kind = "file"
    /\ includeHidden \/ ~StartsWithDot(NameOf(e))
    /\ e.openErr = "nil" /\ e.readErr = "nil"

\* C2: with a non-empty include-extension set the text classifier is never
\* invoked, and a regular, non-hidden-excluded, readable file the walk reaches
\* is counted if and only if its lower-cased extension is in the set, whatever
\* its name and content.
C2_ExplicitExtensions ==
    count # {} =>
        /\ sniffed = {}
        /\ \A e \in VisitedEntries :
               PlainReadable(e) =>
                   (Recorded(e) <=> ToLower(Ext(NameOf(e))) \in count)

\* t.EXE, a file of binary content, is counted under -count "SUM, .exe,,md".
C2_Witness ==
    /\ pc = "scanned"
    /\ count = { <<".","s","u","m">>, <<".","e","x","e">>, <<".","m","d">> }
    /\ \E i \in 1..Len(s.PerFile) : s.PerFile[i].Path = <<"t",".","E","X","E">>
    /\ sniffed = {}

\* C3: no entry below a directory other than root whose name is in the skip
\* set is visited or recorded, whatever includeHidden is, and the scan ends as
\* it does on the tree without those entries; root itself is read even when
\* its name is in the skip set.
C3_SkipDirPrunes ==
    /\ \A d \in tree :
           (d.kind = "dir" /\ d.comps # <<>> /\ NameOf(d) \in skip) =>
               /\ \A e \in tree : IsUnder(e, d) => e \notin VisitedEntries /\ ~Recorded(e)
               /\ pc = "scanned" =>
                      LET r == RunScan({e \in tree : ~IsUnder(e, d)})
                      IN  r.s = s /\ r.err = err
    /\ \A d \in tree :
           (d.comps = <<>> /\ d.kind = "dir" /\ d.listErr = "nil"
                /\ Len(visited) >= 2 /\ err = "nil")
               => \A e \in tree :
                      Len(e.comps) = 1 =>
                          \/ e \in VisitedEntries
                          \/ \E i \in 1..Len(todo) : todo[i] = e

\* Scanning root "build": build/build is pruned with build/build/lib/a.go two
\* levels down, and the files of root itself are counted.
C3_Witness ==
    /\ pc = "scanned"
    /\ root = <<"b","u","i","l","d">>
    /\ root \in skip
    /\ includeHidden
    /\ \E e \in tree : e.comps = << <<"b","u","i","l","d">>, <<"l","i","b">>,
                                   <<"a",".","g","o">> >>
    /\ s.Files >= 1

\* A component of the relative path begins with a dot.
HasDotComponent(path) ==
    \/ path[1] = "."
    \/ \E j \in 1..(Len(path) - 1) : path[j] = "/" /\ path[j + 1] = "."

\* C4: with hidden entries excluded, no per-file record has a path with a
\* component beginning with '.', and nothing below a directory other than root
\* whose name begins with '.' is visited; this holds with an include-extension
\* set as without one.
C4_HiddenExcluded ==
    ~includeHidden =>
        /\ \A i \in 1..Len(s.PerFile) : ~HasDotComponent(s.PerFile[i].Path)
        /\ \A d \in tree :
               (d.kind = "dir" /\ d.comps # <<>> /\ StartsWithDot(NameOf(d))) =>
                   \A e \in tree : IsUnder(e, d) => e \notin VisitedEntries

\* .h.go is visited under -count go and not counted.
C4_Witness ==
    /\ pc = "scanned"
    /\ ~includeHidden
    /\ count = { <<".","g","o">> }
    /\ \E e \in VisitedEntries : e.comps = << <<".","h",".","g","o">> >>
    /\ s.Files = 1

\* The name is on the built-in list, or has no extension or the extension .exe.
ExcludedByName(name) ==
    \/ ToLower(name) \in defaultSkipFiles
    \/ Ext(name) = <<>>
    \/ ToLower(Ext(name)) = <<".","e","x","e">>

\* C5: without an include-extension set, a regular, non-hidden-excluded,
\* readable file the walk reaches is counted unless its lower-cased name is on
\* the built-in lock/manifest list, it has no extension or the extension .exe,
\* or the text classifier reports it binary; in those cases it is not counted.
C5_DefaultFilters ==
    count = {} =>
        \A e \in VisitedEntries :
            PlainReadable(e) =>
                (Recorded(e) <=> /\ ~ExcludedByName(NameOf(e))
                                 /\ isLikelyTextFile(FileOf(e)))

\* Go.sum, a text file with an extension, is visited and not counted.
C5_Witness ==
    /\ pc = "scanned"
    /\ count = {}
    /\ \E e \in VisitedEntries : e.comps = << <<"G","o",".","s","u","m">> >>
    /\ s.Files = 1
    /\ s.PerFile[1].Path = <<"z",".","m","d">>

\* The file passes every filter of the callback, so that countLines is called.
PassesFilters(e) ==
    /\ e.kind = "file"
    /\ includeHidden \/ ~StartsWithDot(NameOf(e))
    /\ count # {} => ToLower(Ext(NameOf(e))) \in count
    /\ count = {} => ~ExcludedByName(NameOf(e)) /\ isLikelyTextFile(FileOf(e))

\* The error countLines meets on the file ("nil" when none).
CountFailure(e) == IF e.openErr # "nil" THEN e.openErr ELSE e.readErr

\* C9: a file that passed all filters and whose open or read fails with
\* permission denied has no record, and the scan returns the stats and the
\* error it returns on the tree without that file.
C9_PermissionSkipped ==
    pc = "scanned" =>
        \A e \in tree :
            (PassesFilters(e) /\ CountFailure(e) \in {"EACCES", "EPERM"}) =>
                /\ ~Recorded(e)
                /\ LET r == RunScan(tree \ {e})
                   IN  r.s = s /\ r.err = err

\* a.go fails with permission denied after two bytes were read; the scan goes
\* on to count z.md and returns no error.
C9_Witness ==
    /\ pc = "scanned"
    /\ count = {}
    /\ \E e \in VisitedEntries :
           /\ e.comps = << <<"a",".","g","o">> >>
           /\ e.readErr = "EACCES" /\ e.readAt = 2
    /\ err = "nil"
    /\ s.Files = 1 /\ s.PerFile[1].Path = <<"z",".","m","d">>

\* The callback lets WalkDir read the directory.
Descended(d) ==
    \/ d.comps = <<>>
    \/ /\ NameOf(d) \notin skip
       /\ includeHidden \/ ~StartsWithDot(NameOf(d))

\* The error other than permission denied that reading the directory, or
\* countLines on a file that passed all filters, meets ("nil" when none).
FatalFailure(e) ==
    LET f == IF e.kind = "dir" /\ Descended(e) THEN e.listErr
             ELSE IF PassesFilters(e) THEN CountFailure(e)
             ELSE "nil"
    IN  IF f \in {"EACCES", "EPERM"} THEN "nil" ELSE f

\* The error other than permission denied that any open or read on the visited
\* entry met: as FatalFailure, and also inside the text classifier.
AnyFailure(e) ==
    LET f == IF e.kind = "dir" THEN FatalFailure(e)
             ELSE IF PathOf(e) \in sniffed /\ e.openErr # "nil" THEN e.openErr
             ELSE IF PathOf(e) \in sniffed /\ e.readErr # "nil" /\ e.readAt = 0 THEN e.readErr
             ELSE FatalFailure(e)
    IN  IF f \in {"EACCES", "EPERM"} THEN "nil" ELSE f

\* C10 as claimed: every enumeration or read failure other than permission
\* denied aborts the scan and is the error returned.
C10_AnyFailureAborts ==
    \A e \in VisitedEntries : AnyFailure(e) # "nil" => err = AnyFailure(e)

\* C10 as amended: a failure other than permission denied of os.Lstat(root),
\* of reading a directory, or of countLines on a file that passed all filters
\* ends the walk at that entry: it is the last entry visited, it has no
\* record, its error is the error scan returns, and main prints the error and
\* neither totals nor leaderboards.  (An open or read failure inside
\* isLikelyTextFile only excludes the file.)
C10_FatalAborts ==
    /\ \A i \in 1..Len(visited) : \A e \in tree :
           (visited[i] = PathOf(e) /\ FatalFailure(e) # "nil") =>
               /\ i = Len(visited)
               /\ todo = <<>>
               /\ err = FatalFailure(e)
               /\ ~Recorded(e)
    /\ (pc # "start" /\ ~\E e \in tree : e.comps = <<>>) =>
           err = "ENOENT" /\ s = ZeroStats
    /\ (pc = "exit" /\ err # "nil") =>
           out = [exit |-> 1, stderr |-> err, stdout |-> <<>>]

\* a.go fails with EIO after two bytes; z.md after it is never visited and
\* main prints the error only.
C10_Witness ==
    /\ pc = "exit"
    /\ err = "EIO"
    /\ Len(visited) = 2
    /\ \E e \in tree : e.comps = << <<"a",".","g","o">> >> /\ visited[2] = PathOf(e)
                       /\ e.readErr = "EIO"
    /\ \E e \in tree : e.comps = << <<"z",".","m","d">> >>
    /\ out.stdout = <<>> /\ out.stderr = "EIO"

\* The permutations of 1..n.
Perms(n) ==
    {p \in [1..n -> 1..n] : \A i, j \in 1..n : i # j => p[i] # p[j]}

\* The orders in which the entries of a directory may be traversed: any
\* order of the (at most three) entries of root, and the listing of every
\* directory below it as read or reversed.
Orders == {[top |-> p, flip |-> f] : p \in Perms(3), f \in BOOLEAN}

\* The listing of directory e taken in order ord.
Reorder(list, e, ord) ==
    IF e.comps = <<>>
    THEN [k \in 1..Len(list) |->
             list[CHOOSE i \in 1..Len(list) :
                      Cardinality({j \in 1..Len(list) : ord.top[j] < ord.top[i]})
                          = k - 1]]
    ELSE IF ord.flip THEN [k \in 1..Len(list) |-> list[Len(list) + 1 - k]]
    ELSE list

\* One step of the walk when the entries a directory read puts in front of
\* todo are taken in order ord.
WalkStepIn(t, w, ord) ==
    LET e    == Head(w.todo)
        base == WalkStep(t, w)
        n    == Len(base.todo) - Len(w.todo) + 1
    IN  IF n > 0
        THEN [base EXCEPT !.todo = Reorder(SubSeq(base.todo, 1, n), e, ord)
                                       \o Tail(w.todo)]
        ELSE base

RECURSIVE WalkAllIn(_, _, _)
WalkAllIn(t, w, ord) ==
    IF w.todo = <<>> THEN w ELSE WalkAllIn(t, WalkStepIn(t, w, ord), ord)

\* scan over tree t when siblings are traversed in order ord.
RunScanIn(t, ord) == WalkAllIn(t, WalkStart(t), ord)

\* The per-file sequences with the records of list in another order.
Rearranged(list) ==
    {[k \in 1..Len(list) |-> list[p[k]]] : p \in Perms(Len(list))}

\* The two leaderboards of a per-file sequence for "-rank n", the extension
\* map yielding its keys in order iter.
Boards(list, n, iter) ==
    <<printFileLeaderboard(list, n).block,
      printExtensionLeaderboard(list, n, iter).block>>

\* The leaderboards the sequence may print for "-rank n", over every
\* iteration order of the extension map.
BoardsOf(list, n) ==
    {Boards(list, n, iter) :
        iter \in MapOrders(DOMAIN ByExt(list, Len(list)))}

\* C11: a scan that traverses siblings in any other order fails if and only
\* if this one fails, and otherwise returns the same Files, Lines and Bytes
\* and the same set of per-file records; and every sequence of those records,
\* in whatever order, prints the same file leaderboard and the same extension
\* leaderboard for every iteration order of the extension map.
C11_OrderIndependent ==
    pc = "scanned" =>
        /\ \A ord \in Orders :
               LET r == RunScanIn(tree, ord)
               IN  /\ (r.err = "nil") <=> (err = "nil")
                   /\ err = "nil" =>
                          /\ r.s.Files = s.Files
                          /\ r.s.Lines = s.Lines
                          /\ r.s.Bytes = s.Bytes
                          /\ r.s.PerFile \in Rearranged(s.PerFile)
        /\ err = "nil" =>
               \A n \in {1, 3} :
                   /\ Cardinality(BoardsOf(s.PerFile, n)) = 1
                   /\ \A q \in Rearranged(s.PerFile) :
                          BoardsOf(q, n) = BoardsOf(s.PerFile, n)

\* Under -count "SUM, .exe,,md" Go.sum and z.md have one line each, so the
\* extensions .sum and .md tie on lines and on files; Build/a.go and
\* Build/lib/a.go tie on two lines; and taking the entries of root in
\* another order yields the records in another sequence.
C11_Witness ==
    /\ pc = "scanned"
    /\ err = "nil"
    /\ s.Files = 2
    /\ \E i, j \in 1..Len(s.PerFile) :
           /\ s.PerFile[i].Path = <<"G","o",".","s","u","m">>
           /\ s.PerFile[j].Path = <<"z",".","m","d">>
           /\ s.PerFile[i].Lines = s.PerFile[j].Lines
    /\ \E ord \in Orders : RunScanIn(tree, ord).s.PerFile # s.PerFile

\* The sum of the line counts, and of the byte counts, of the records.
RECURSIVE TotalLines(_)
TotalLines(list) ==
    IF list = <<>> THEN 0 ELSE Head(list).Lines + TotalLines(Tail(list))

RECURSIVE TotalBytes(_)
TotalBytes(list) ==
    IF list = <<>> THEN 0 ELSE Head(list).Bytes + TotalBytes(Tail(list))

\* C12: in every state of a scan, before the walk, after each visited entry
\* and at its end, Files is the number of per-file records, Lines the sum of
\* their line counts and Bytes the sum of their byte counts; every record has
\* the path, relative to root, of a regular file the walk visited, which
\* joined onto root is the path the callback was handed; and no two records
\* have the same path.
C12_CountersMatchRecords ==
    /\ s.Files = Len(s.PerFile)
    /\ s.Lines = TotalLines(s.PerFile)
    /\ s.Bytes = TotalBytes(s.PerFile)
    /\ \A i \in 1..Len(s.PerFile) :
           \E e \in VisitedEntries :
               /\ e.kind = "file"
               /\ s.PerFile[i].Path = SlashJoin(e.comps)
               /\ JoinPath(root, s.PerFile[i].Path) = PathOf(e)
    /\ \A i, j \in 1..Len(s.PerFile) :
           i # j => s.PerFile[i].Path # s.PerFile[j].Path

\* In the middle of a scan of root "build": build/Build/a.go and
\* build/Build/lib/a.go, two files of the same name, are recorded as
\* Build/a.go and Build/lib/a.go, and entries of root remain to be visited.
C12_Witness ==
    /\ pc = "walk"
    /\ root = <<"b","u","i","l","d">>
    /\ todo # <<>>
    /\ s.Files = 2 /\ s.Lines = 4 /\ s.Bytes = 6
    /\ s.PerFile[1].Path = <<"B","u","i","l","d","/","a",".","g","o">>
    /\ s.PerFile[2].Path =
           <<"B","u","i","l","d","/","l","i","b","/","a",".","g","o">>

\* C13: permission denied on reading a directory the walk descends into ends
\* the walk at that directory: it is the last entry visited, nothing below it
\* and nothing after it is visited, scan returns that error with the stats
\* counted so far, and main prints the error and neither totals nor
\* leaderboards.
C13_DirPermissionAborts ==
    \A i \in 1..Len(visited) : \A d \in tree :
        (/\ visited[i] = PathOf(d)
         /\ d.kind = "dir" /\ Descended(d)
         /\ d.listErr \in {"EACCES", "EPERM"}) =>
            /\ i = Len(visited)
            /\ todo = <<>>
            /\ pc \in {"scanned", "exit"}
            /\ err = d.listErr
            /\ \A e \in tree : IsUnder(e, d) => e \notin VisitedEntries /\ ~Recorded(e)
            /\ pc = "exit" => out = [exit |-> 1, stderr |-> err, stdout |-> <<>>]

\* Under -count go: a.go cannot be opened (permission denied) and is passed
\* over, then src cannot be read (permission denied) and the scan ends with
\* that error; src/a.go and z.md are never visited and nothing is printed but
\* the error.
C13_Witness ==
    /\ pc = "exit"
    /\ count = { <<".","g","o">> }
    /\ err = "EACCES"
    /\ Len(visited) = 3
    /\ \E e \in tree : /\ e.comps = << <<"a",".","g","o">> >>
                       /\ e.openErr = "EACCES"
                       /\ visited[2] = PathOf(e)
    /\ \E d \in tree : /\ d.comps = << <<"s","r","c">> >>
                       /\ d.listErr = "EACCES"
                       /\ visited[3] = PathOf(d)
    /\ \E e \in tree : e.comps = << <<"s","r","c">>, <<"a",".","g","o">> >>
    /\ \E e \in tree : e.comps = << <<"z",".","m","d">> >>
    /\ s = ZeroStats
    /\ out = [exit |-> 1, stderr |-> "EACCES", stdout |-> <<>>]

-----------------------------------------------------------------------------
\* Properties of countLines (SpecCount)

LFCount(c) == Cardinality({i \in 1..Len(c) : c[i] = 10})

ExpectedLines(c) ==
    IF c = <<>> THEN 0
    ELSE IF c[Len(c)] = 10 THEN LFCount(c)
    ELSE LFCount(c) + 1

\* C1: for every content that reads to its end, however the reads split it,
\* countLines returns size = the number of bytes and lines = the number of LF
\* bytes (plus one when the content is non-empty and does not end in LF; 0 for
\* the empty content); CR bytes add nothing.
C1_CountLines ==
    (pc = "done" /\ file.openErr = "nil" /\ file.readErr = "nil")
        => ret = [lines |-> ExpectedLines(file.content),
                  size  |-> Len(file.content),
                  err   |-> "nil"]

\* A CR LF pair followed by an unterminated line, read one byte at a time.
C1_Witness ==
    /\ pc = "done"
    /\ file.content = <<13, 10, 97>>
    /\ file.cuts = {1, 2}
    /\ file.openErr = "nil" /\ file.readErr = "nil"
    /\ ret.lines = 2 /\ ret.size = 3

-----------------------------------------------------------------------------
\* Properties of isLikelyTextFile (SpecSniff)

\* The number of bytes with a value in B among the first 8192 of the runs.
RECURSIVE CountIn(_, _, _)
CountIn(runs, offset, B) ==
    IF runs = <<>> THEN 0
    ELSE LET h    == Head(runs)
             room == IF offset >= 8192 THEN 0 ELSE 8192 - offset
             take == IF h.n < room THEN h.n ELSE room
         IN  (IF h.b \in B THEN take ELSE 0) + CountIn(Tail(runs), offset + h.n, B)

TextBytes == {9, 10, 13} \cup (32..126) \cup (128..255)

\* C6: isLikelyTextFile is false on an open or read failure; otherwise, over
\* the first min(8192, length) bytes: true for an empty sample, false if a
\* sampled byte is 0x00, and else false exactly when the bytes that are not
\* LF, CR, TAB, 0x20-0x7E or >= 0x80 are strictly more than 30% of the sample.
C6_TextClassifier ==
    pc = "done" =>
        ret = (IF file.openErr # "nil" \/ file.readErr # "nil" THEN FALSE
               ELSE LET n   == CountIn(file.runs, 0, 0..255)
                        nul == CountIn(file.runs, 0, {0})
                        non == CountIn(file.runs, 0, (0..255) \ TextBytes)
                    IN  IF n = 0 THEN TRUE
                        ELSE IF nul > 0 THEN FALSE
                        ELSE ~(10 * non > 3 * n))

\* Three control bytes in a sample of ten: a fraction of exactly 0.30 is text.
C6_Witness ==
    /\ pc = "done"
    /\ file.runs = <<[b |-> 1, n |-> 3], [b |-> 97, n |-> 7]>>
    /\ file.openErr = "nil" /\ file.readErr = "nil"
    /\ ret = TRUE

-----------------------------------------------------------------------------
\* The leaderboards on every short sequence of records

MaxEntries == 3

\* Paths: two of one extension in either case, no extension below a
\* directory with a dot, and a second extension.
RankPaths ==
    { <<"b",".","g","o">>,
      <<"a",".","G","O">>,
      <<"d",".","x","/","e">>,
      <<"x",".","m","d">> }

RankLines == {0, 1, 2}

\* Sequences of records of distinct paths.
RankEntries ==
    {e \in SeqsUpTo([Path : RankPaths, Lines : RankLines, Bytes : {7}], MaxEntries) :
        \A i, j \in 1..Len(e) : i # j => e[i].Path # e[j].Path}

RankInit ==
    /\ pc = "files"
    /\ entries \in RankEntries
    /\ top \in 1..(MaxEntries + 1)
    /\ shown = <<>>
    /\ FileIdle
    /\ ScanIdle

CallPrintFileLeaderboard ==
    /\ pc = "files"
    /\ LET r == printFileLeaderboard(entries, top)
       IN  /\ entries' = r.entries
           /\ shown' = Append(shown, r.block)
    /\ pc' = "exts"
    /\ UNCHANGED <<top, file, ret, scanVars>>

CallPrintExtensionLeaderboard ==
    /\ pc = "exts"
    /\ \E iter \in MapOrders(DOMAIN ByExt(entries, Len(entries))) :
         LET r == printExtensionLeaderboard(entries, top, iter)
         IN  /\ entries' = r.entries
             /\ shown' = Append(shown, r.block)
    /\ pc' = "done"
    /\ UNCHANGED <<top, file, ret, scanVars>>

RankNext == CallPrintFileLeaderboard \/ CallPrintExtensionLeaderboard

SpecRank == RankInit /\ [][RankNext]_vars

-----------------------------------------------------------------------------
\* Properties of the leaderboards (SpecRank)

Min(a, b) == IF a < b THEN a ELSE b

\* a ranks above b: more lines, or as many and the smaller path.
FileAbove(a, b) ==
    \/ a.Lines > b.Lines
    \/ a.Lines = b.Lines /\ StrLess(a.Path, b.Path)

C7_Rows ==
    Len(shown) >= 1 =>
        LET b    == shown[1]
            rows == b.rows
        IN  /\ b.kind = "Files" /\ b.requested = top
            /\ Len(rows) = Min(top, Len(entries)) /\ b.showing = Len(rows)
            /\ b.flagged <=> Len(entries) < top
            /\ \A i, j \in 1..Len(rows) : i < j => FileAbove(rows[i], rows[j])
            /\ \A i \in 1..Len(rows) : \E k \in 1..Len(entries) :
                   /\ entries[k].Path = rows[i].Path
                   /\ entries[k].Lines = rows[i].Lines
            /\ \A k \in 1..Len(entries) :
                   (\A i \in 1..Len(rows) : rows[i].Path # entries[k].Path)
                       => \A i \in 1..Len(rows) : FileAbove(rows[i], entries[k])

\* C7: the file leaderboard lists min(N, number of records) rows, the first of
\* the records in descending line count with ties in ascending path order; it
\* prints "(showing k)" exactly when fewer than N records exist; and the
\* record sequence it was given is the same after the call.
C7_FileLeaderboard == []C7_Rows /\ [][entries' = entries]_vars

\* Two files of two lines each listed in path order, the third cut off by N = 2.
C7_Witness ==
    /\ pc = "done"
    /\ top = 2
    /\ entries = << [Path |-> <<"b",".","g","o">>, Lines |-> 2, Bytes |-> 7],
                    [Path |-> <<"x",".","m","d">>, Lines |-> 1, Bytes |-> 7],
                    [Path |-> <<"a",".","G","O">>, Lines |-> 2, Bytes |-> 7] >>
    /\ shown[1].rows = << [Lines |-> 2, Path |-> <<"a",".","G","O">>],
                          [Lines |-> 2, Path |-> <<"b",".","g","o">>] >>
    /\ ~shown[1].flagged

\* The bucket of a path: its lower-cased extension, or "(no extension)".
C8_Key(path) ==
    IF ToLower(Ext(path)) = <<>>
    THEN <<"(","n","o"," ","e","x","t","e","n","s","i","o","n",")">>
    ELSE ToLower(Ext(path))

RECURSIVE C8_SumLines(_, _)
C8_SumLines(list, key) ==
    IF list = <<>> THEN 0
    ELSE (IF C8_Key(Head(list).Path) = key THEN Head(list).Lines ELSE 0)
         + C8_SumLines(Tail(list), key)

C8_Groups ==
    { [Ext   |-> key,
       Files |-> Cardinality({k \in 1..Len(entries) : C8_Key(entries[k].Path) = key}),
       Lines |-> C8_SumLines(entries, key)] :
      key \in {C8_Key(entries[k].Path) : k \in 1..Len(entries)} }

\* g ranks above h: more lines, then more files, then the smaller extension.
GroupAbove(g, h) ==
    \/ g.Lines > h.Lines
    \/ g.Lines = h.Lines /\ g.Files > h.Files
    \/ g.Lines = h.Lines /\ g.Files = h.Files /\ StrLess(g.Ext, h.Ext)

\* C8: the extension leaderboard lists the first min(N, number of groups)
\* groups of the records by lower-cased extension ("(no extension)" for
\* none), each with the sum of its files' lines, in descending summed lines,
\* then descending file count, then ascending extension.
C8_ExtensionLeaderboard ==
    Len(shown) >= 2 =>
        LET b == shown[2]
            n == Min(top, Cardinality(C8_Groups))
            nth(i) == CHOOSE g \in C8_Groups :
                          Cardinality({h \in C8_Groups : GroupAbove(h, g)}) = i - 1
        IN  /\ b.kind = "Extensions" /\ b.requested = top
            /\ b.showing = n
            /\ b.flagged <=> Cardinality(C8_Groups) < top
            /\ b.rows = [i \in 1..n |-> [Lines |-> nth(i).Lines, Ext |-> nth(i).Ext]]

\* One .md file of two lines ranks above two .go files of one line in all.
C8_Witness ==
    /\ pc = "done"
    /\ top = 3
    /\ entries = << [Path |-> <<"b",".","g","o">>, Lines |-> 1, Bytes |-> 7],
                    [Path |-> <<"a",".","G","O">>, Lines |-> 0, Bytes |-> 7],
                    [Path |-> <<"x",".","m","d">>, Lines |-> 2, Bytes |-> 7] >>
    /\ shown[2].rows = << [Lines |-> 2, Ext |-> <<".","m","d">>],
                          [Lines |-> 1, Ext |-> <<".","g","o">>] >>
    /\ shown[2].flagged

====
